---- MODULE Spec2Model ----
(***************************************************************************)
(* DS3231 real-time-clock driver (src/src/ds3231.c, header                 *)
(* src/unnamed/part_001).  The peripheral's registers are the only durable *)
(* state; every driver function is a short sequence of blocking I2C        *)
(* transfers.  Each transfer is one step of the model, so that a transfer  *)
(* can fail, and the peripheral can act, between any two of them.          *)
(***************************************************************************)
EXTENDS Integers, Sequences, FiniteSets, TLC

\* ------------------------------------------------------------- constants

DS3231_REG_TIME == 0
DS3231_REG_ALARM1 == 7
DS3231_REG_ALARM2 == 11
DS3231_REG_CONTROL == 14
DS3231_REG_STATUS == 15

DS3231_CONTROL_A1IE == 1
DS3231_CONTROL_A2IE == 2
DS3231_CONTROL_INTCN == 4

DS3231_STATUS_A1F == 1
DS3231_STATUS_A2F == 2

ALARM_1 == 0
ALARM_2 == 1

\* uint8_t
Byte == 0..255

\* The peripheral's register file, 0x00 .. 0x12; the driver addresses
\* 0x00 .. 0x0F of it.
RegAddr == 0..18

\* How many values beyond 0 an uninitialised local is sampled at.
MaxUninit == 1

\* The longest short count a write is cut at, besides one byte short of all.
MaxShort == 2

\* ------------------------------------------------------- uint8_t arithmetic

RECURSIVE And8(_, _, _)
And8(a, b, n) ==
    IF n = 0 THEN 0
    ELSE (a % 2) * (b % 2) + 2 * And8(a \div 2, b \div 2, n - 1)

\* a & b on uint8_t
BitAnd(a, b) == And8(a, b, 8)

\* a | b on uint8_t
BitOr(a, b) == a + b - BitAnd(a, b)

\* x |= m
SetBits(x, m) == BitOr(x, m)

\* x &= ~m  (the int result truncated to uint8_t on assignment)
ClearBits(x, m) == BitAnd(x, 255 - m)

\* bit i of x
Bit(x, i) == (x \div (2 ^ i)) % 2

\* ---------------------------------------------------------------- BCD

\* A conversion that stores the decimal value unpacked.
dec_to_bcd_unpacked(val) == val % 256

\* static inline uint8_t dec_to_bcd(uint8_t val): the int result is
\* truncated to uint8_t on return.
dec_to_bcd(val) == ((val \div 10) * 16 + (val % 10)) % 256

\* static inline uint8_t bcd_to_dec(uint8_t val)
bcd_to_dec(val) == ((val \div 16) * 10 + (val % 16)) % 256

\* ------------------------------------------------------------ enums

ALARM1_ONCE_PER_SECOND == 0
ALARM1_SECONDS_MATCH == 1
ALARM1_MINUTES_SECONDS_MATCH == 2
ALARM1_HOURS_MINUTES_SECONDS_MATCH == 3
ALARM1_DATE_H_M_S_MATCH == 4
ALARM1_DAY_OF_WEEK_H_M_S_MATCH == 5

ALARM2_ONCE_PER_MINUTE == 0
ALARM2_MINUTES_MATCH == 1
ALARM2_HOURS_MINUTES_MATCH == 2
ALARM2_DATE_H_M_MATCH == 3
ALARM2_DAY_OF_WEEK_H_M_MATCH == 4

SQW_FREQ_1HZ == 0
SQW_FREQ_1024HZ == 1
SQW_FREQ_4096HZ == 2
SQW_FREQ_8192HZ == 3

ds3231_alarm_num_t == {ALARM_1, ALARM_2}
ds3231_alarm1_mode_t == ALARM1_ONCE_PER_SECOND..ALARM1_DAY_OF_WEEK_H_M_S_MATCH
ds3231_alarm2_mode_t == ALARM2_ONCE_PER_MINUTE..ALARM2_DAY_OF_WEEK_H_M_MATCH
ds3231_sqw_freq_t == SQW_FREQ_1HZ..SQW_FREQ_8192HZ

\* ------------------------------------------------- buffers the driver builds

\* A time buffer with the seconds and minutes bytes in each other's place.
ds3231_set_time_buf_swapped(d) ==
    << DS3231_REG_TIME,
       dec_to_bcd(d.min), dec_to_bcd(d.sec), dec_to_bcd(d.hour),
       dec_to_bcd(d.dow), dec_to_bcd(d.day), dec_to_bcd(d.month),
       dec_to_bcd(d.year) >>

\* ds3231_set_time: buf[0..7], the register address and the seven BCD bytes.
ds3231_set_time_buf(d) ==
    << DS3231_REG_TIME,
       dec_to_bcd(d.sec), dec_to_bcd(d.min), dec_to_bcd(d.hour),
       dec_to_bcd(d.dow), dec_to_bcd(d.day), dec_to_bcd(d.month),
       dec_to_bcd(d.year) >>

\* ds3231_read_time: the struct filled from read_buf[0..6].
ds3231_read_time_decode(read_buf) ==
    [ sec   |-> bcd_to_dec(read_buf[1]),
      min   |-> bcd_to_dec(read_buf[2]),
      hour  |-> bcd_to_dec(read_buf[3]),
      dow   |-> bcd_to_dec(read_buf[4]),
      day   |-> bcd_to_dec(read_buf[5]),
      month |-> bcd_to_dec(read_buf[6]),
      year  |-> bcd_to_dec(read_buf[7]) ]

\* An alarm 1 buffer filled from the fields as they are, not converted to BCD.
ds3231_set_alarm1_buf_binary(at, mode) ==
    << DS3231_REG_ALARM1, at.sec % 128, at.min % 128, at.hour % 128,
       at.day % 64 >>

\* ds3231_set_alarm1: buf[0..4] after the switch on mode.  A mode outside
\* the enum falls through the switch and leaves the BCD bytes as they are.
ds3231_set_alarm1_buf(at, mode) ==
    LET sec  == dec_to_bcd(at.sec)
        min  == dec_to_bcd(at.min)
        hour == dec_to_bcd(at.hour)
        day  == dec_to_bcd(at.day)
    IN  CASE mode = ALARM1_ONCE_PER_SECOND ->
               << DS3231_REG_ALARM1, SetBits(sec, 128), SetBits(min, 128),
                  SetBits(hour, 128), SetBits(day, 128) >>
          [] mode = ALARM1_SECONDS_MATCH ->
               << DS3231_REG_ALARM1, ClearBits(sec, 128), SetBits(min, 128),
                  SetBits(hour, 128), SetBits(day, 128) >>
          [] mode = ALARM1_MINUTES_SECONDS_MATCH ->
               << DS3231_REG_ALARM1, ClearBits(sec, 128), ClearBits(min, 128),
                  SetBits(hour, 128), SetBits(day, 128) >>
          [] mode = ALARM1_HOURS_MINUTES_SECONDS_MATCH ->
               << DS3231_REG_ALARM1, ClearBits(sec, 128), ClearBits(min, 128),
                  ClearBits(hour, 128), SetBits(day, 128) >>
          [] mode = ALARM1_DATE_H_M_S_MATCH ->
               << DS3231_REG_ALARM1, ClearBits(sec, 128), ClearBits(min, 128),
                  ClearBits(hour, 128), ClearBits(ClearBits(day, 128), 64) >>
          [] mode = ALARM1_DAY_OF_WEEK_H_M_S_MATCH ->
               << DS3231_REG_ALARM1, ClearBits(sec, 128), ClearBits(min, 128),
                  ClearBits(hour, 128), SetBits(ClearBits(day, 128), 64) >>
          [] OTHER ->
               << DS3231_REG_ALARM1, sec, min, hour, day >>

\* An alarm 2 buffer whose switch on mode is left out.
ds3231_set_alarm2_buf_unmasked(at, mode) ==
    << DS3231_REG_ALARM2, dec_to_bcd(at.min), dec_to_bcd(at.hour),
       dec_to_bcd(at.day) >>

\* ds3231_set_alarm2: buf[0..3] after the switch on mode.
ds3231_set_alarm2_buf(at, mode) ==
    LET min  == dec_to_bcd(at.min)
        hour == dec_to_bcd(at.hour)
        day  == dec_to_bcd(at.day)
    IN  CASE mode = ALARM2_ONCE_PER_MINUTE ->
               << DS3231_REG_ALARM2, SetBits(min, 128), SetBits(hour, 128),
                  SetBits(day, 128) >>
          [] mode = ALARM2_MINUTES_MATCH ->
               << DS3231_REG_ALARM2, ClearBits(min, 128), SetBits(hour, 128),
                  SetBits(day, 128) >>
          [] mode = ALARM2_HOURS_MINUTES_MATCH ->
               << DS3231_REG_ALARM2, ClearBits(min, 128), ClearBits(hour, 128),
                  SetBits(day, 128) >>
          [] mode = ALARM2_DATE_H_M_MATCH ->
               << DS3231_REG_ALARM2, ClearBits(min, 128), ClearBits(hour, 128),
                  ClearBits(ClearBits(day, 128), 64) >>
          [] mode = ALARM2_DAY_OF_WEEK_H_M_MATCH ->
               << DS3231_REG_ALARM2, ClearBits(min, 128), ClearBits(hour, 128),
                  SetBits(ClearBits(day, 128), 64) >>
          [] OTHER ->
               << DS3231_REG_ALARM2, min, hour, day >>

\* ------------------------------------- values the read-modify-writes compute

\* ds3231_set_alarm1: control_reg |= A1IE | INTCN
ds3231_set_alarm1_control(control_reg) ==
    SetBits(control_reg, BitOr(DS3231_CONTROL_A1IE, DS3231_CONTROL_INTCN))

\* ds3231_set_alarm2: control_reg |= A2IE | INTCN
ds3231_set_alarm2_control(control_reg) ==
    SetBits(control_reg, BitOr(DS3231_CONTROL_A2IE, DS3231_CONTROL_INTCN))

\* ds3231_check_alarm_flag: the value returned.
ds3231_check_alarm_flag_result(status_reg, alarm_num) ==
    IF alarm_num = ALARM_1
    THEN BitAnd(status_reg, DS3231_STATUS_A1F) # 0
    ELSE BitAnd(status_reg, DS3231_STATUS_A2F) # 0

\* ds3231_clear_alarm_flag: status_reg &= ~A1F or ~A2F
ds3231_clear_alarm_flag_status(status_reg, alarm_num) ==
    IF alarm_num = ALARM_1
    THEN ClearBits(status_reg, DS3231_STATUS_A1F)
    ELSE ClearBits(status_reg, DS3231_STATUS_A2F)

\* A disable that clears the other alarm's enable bit.
ds3231_disable_alarm_control_swapped(control_reg, alarm_num) ==
    IF alarm_num = ALARM_1
    THEN ClearBits(control_reg, DS3231_CONTROL_A2IE)
    ELSE ClearBits(control_reg, DS3231_CONTROL_A1IE)

\* ds3231_disable_alarm: control_reg &= ~A1IE or ~A2IE
ds3231_disable_alarm_control(control_reg, alarm_num) ==
    IF alarm_num = ALARM_1
    THEN ClearBits(control_reg, DS3231_CONTROL_A1IE)
    ELSE ClearBits(control_reg, DS3231_CONTROL_A2IE)

\* ds3231_enable_32khz_output: bit 3 set or cleared
ds3231_enable_32khz_output_status(status_reg, enable) ==
    IF enable THEN SetBits(status_reg, 2 ^ 3) ELSE ClearBits(status_reg, 2 ^ 3)

\* A square wave selection that leaves the old rate bits in place.
ds3231_enable_sqw_output_control_keeps_rate(control_reg, freq) ==
    SetBits(ClearBits(control_reg, 2 ^ 2), freq * 2 ^ 3)

\* ds3231_enable_sqw_output: INTCN cleared, RS2 and RS1 cleared, freq << 3 set
ds3231_enable_sqw_output_control(control_reg, freq) ==
    SetBits(ClearBits(ClearBits(control_reg, 2 ^ 2), 2 ^ 4 + 2 ^ 3), freq * 2 ^ 3)

\* ds3231_enable_interrupt_mode: INTCN set
ds3231_enable_interrupt_mode_control(control_reg) ==
    SetBits(control_reg, 2 ^ 2)

\* ---------------------------------------------------------------- state

VARIABLES
    regs,         \* the peripheral's registers 0x00 .. 0x12
    ptr,          \* the peripheral's register pointer
    pc,           \* the driver's position: "idle", "<function>:<line>", "done"
    call,         \* the function being run (or last run) and its arguments
    control_reg,  \* the local of that name in the function being run
    status_reg,   \* the local of that name in the function being run
    bus,          \* the I2C transfers of this call, in order
    ret,          \* the value the last call returned (read it when pc = "done")
    dt,           \* the caller's ds3231_datetime_t
    pre,          \* regs as they were when this call was entered
    prev          \* the call before this one: its function, result and pre

vars == << regs, ptr, pc, call, control_reg, status_reg, bus, ret, dt, pre, prev >>

\* --------------------------------------------------------- the I2C transport
\* i2c_write_blocking / i2c_read_blocking return the number of bytes
\* transferred; the driver treats any other count than the one asked for as
\* failure.  A transfer is recorded with the count it returned.

\* The log after i2c_write_blocking(port, addr, buf, Len(buf), nostop) = count.
Written(buf, nostop, count) ==
    Append(bus, [ op |-> "write", data |-> buf, len |-> Len(buf),
                  nostop |-> nostop, count |-> count ])

\* The log after i2c_read_blocking(port, addr, dst, len, false) = count.
Readback(data, len, count) ==
    Append(bus, [ op |-> "read", data |-> data, len |-> len,
                  nostop |-> FALSE, count |-> count ])

\* The registers after the peripheral has accepted the first count bytes of
\* buf: buf[1] is the register address, the bytes after it land in
\* consecutive registers.  A short write leaves the bytes it did not reach.
Store(r, buf, count) ==
    [ a \in RegAddr |->
        IF a >= buf[1] /\ a - buf[1] + 2 <= count
        THEN buf[a - buf[1] + 2]
        ELSE r[a] ]

\* The register pointer after count bytes of buf were accepted: the first
\* byte sets it, every byte stored moves it on by one.
Pointed(p, buf, count) ==
    IF count = 0 THEN p ELSE (buf[1] + count - 1) % 19

\* i2c_write_blocking(port, addr, buf, Len(buf), nostop) returning count.
I2cWrite(buf, nostop, count) ==
    /\ bus' = Written(buf, nostop, count)
    /\ regs' = Store(regs, buf, count)
    /\ ptr' = Pointed(ptr, buf, count)

\* The counts a write of n bytes may return: n, or a short count; the short
\* counts modelled are 0 .. MaxShort and n - 1.
WriteCounts(n) == { k \in 0..n : k <= MaxShort \/ k >= n - 1 }

\* What an uninitialised uint8_t local may hold.
Uninit == { (k * 255) % 256 : k \in 0..MaxUninit }

\* A 1-byte i2c_read_blocking, as {count, val} outcomes: the byte of the
\* register the pointer is at, or a short count that leaves the destination
\* local as it was, uninitialised.
ReadByte ==
    { [ count |-> 1, val |-> regs[ptr] ] }
    \cup { [ count |-> 0, val |-> g ] : g \in Uninit }

\* i2c_read_blocking(port, addr, dst, 1, false) with outcome r.
I2cReadByte(r) ==
    /\ bus' = Readback(IF r.count = 1 THEN << r.val >> ELSE << >>, 1, r.count)
    /\ ptr' = (ptr + r.count) % 19
    /\ regs' = regs

\* ---------------------------------------------------------------- calls

NoCall == [ fn |-> "none" ]

EntryPc(fn) ==
    CASE fn = "ds3231_set_time" -> "ds3231_set_time:40"
      [] fn = "ds3231_read_time" -> "ds3231_read_time:52"
      [] fn = "ds3231_set_alarm1" -> "ds3231_set_alarm1:130"
      [] fn = "ds3231_set_alarm2" -> "ds3231_set_alarm2:185"
      [] fn = "ds3231_check_alarm_flag" -> "ds3231_check_alarm_flag:204"
      [] fn = "ds3231_clear_alarm_flag" -> "ds3231_clear_alarm_flag:217"
      [] fn = "ds3231_disable_alarm" -> "ds3231_disable_alarm:233"
      [] fn = "ds3231_enable_32khz_output" -> "ds3231_enable_32khz_output:250"
      [] fn = "ds3231_enable_sqw_output" -> "ds3231_enable_sqw_output:268"
      [] fn = "ds3231_enable_interrupt_mode" -> "ds3231_enable_interrupt_mode:291"

\* The caller enters function c.fn: the locals are fresh, nothing is on the bus.
Enter(c) ==
    /\ pc \in { "idle", "done" }
    /\ call' = c
    /\ pc' = EntryPc(c.fn)
    /\ bus' = << >>
    /\ control_reg' = 0
    /\ status_reg' = 0
    /\ pre' = regs
    /\ prev' = [ call |-> call, ret |-> ret, pre |-> pre ]
    /\ UNCHANGED << regs, ptr, ret, dt >>

\* return v;
Return(v) ==
    /\ pc' = "done"
    /\ ret' = v

\* ------------------------------------------------------ ds3231_set_time

\* A ds3231_set_time that returns bytes_written itself, true when not zero.
ds3231_set_time_nonzero ==
    /\ pc = "ds3231_set_time:40"
    /\ \E count \in WriteCounts(8) :
         /\ I2cWrite(ds3231_set_time_buf(call.dt), FALSE, count)
         /\ Return(count # 0)
    /\ UNCHANGED << call, control_reg, status_reg, dt, pre, prev >>

\* line 40-41: the 8-byte write; success iff all 8 bytes went out.
ds3231_set_time ==
    /\ pc = "ds3231_set_time:40"
    /\ \E count \in WriteCounts(8) :
         LET buf == ds3231_set_time_buf(call.dt)
         IN  /\ I2cWrite(buf, FALSE, count)
             /\ Return(count = 8)
    /\ UNCHANGED << call, control_reg, status_reg, dt, pre, prev >>

\* ----------------------------------------------------- ds3231_read_time

\* line 52-54: the register pointer write; return false unless 1 byte went.
ds3231_read_time_pointer ==
    /\ pc = "ds3231_read_time:52"
    /\ \E count \in WriteCounts(1) :
         /\ I2cWrite(<< DS3231_REG_TIME >>, TRUE, count)
         /\ IF count # 1
            THEN Return(FALSE)
            ELSE pc' = "ds3231_read_time:57" /\ ret' = ret
    /\ UNCHANGED << call, control_reg, status_reg, dt, pre, prev >>

\* line 57-70: the 7-byte read; on a short count return false and leave *dt,
\* otherwise decode the seven bytes into *dt.  (A read is refused at its
\* address byte or not at all: the master acknowledges the data bytes.)
ds3231_read_time_read ==
    /\ pc = "ds3231_read_time:57"
    /\ LET read_buf == [ i \in 1..7 |-> regs[(ptr + i - 1) % 19] ]
       IN  \E count \in { 0, 7 } :
             /\ ptr' = (ptr + count) % 19
             /\ IF count # 7
                THEN /\ bus' = Readback(<< >>, 7, count)
                     /\ dt' = dt
                     /\ Return(FALSE)
                ELSE /\ bus' = Readback(read_buf, 7, count)
                     /\ dt' = ds3231_read_time_decode(read_buf)
                     /\ Return(TRUE)
    /\ UNCHANGED << regs, call, control_reg, status_reg, pre, prev >>

\* ---------------------------------------------------- ds3231_set_alarm1

\* line 130-132: the 5-byte write of the alarm block; return false if short.
ds3231_set_alarm1_block ==
    /\ pc = "ds3231_set_alarm1:130"
    /\ \E count \in WriteCounts(5) :
         LET buf == ds3231_set_alarm1_buf(call.at, call.mode)
         IN  /\ I2cWrite(buf, FALSE, count)
             /\ IF count # 5
                THEN Return(FALSE)
                ELSE pc' = "ds3231_set_alarm1:137" /\ ret' = ret
    /\ UNCHANGED << call, control_reg, status_reg, dt, pre, prev >>

\* line 137: the register pointer write; its result is not looked at.
ds3231_set_alarm1_pointer ==
    /\ pc = "ds3231_set_alarm1:137"
    /\ \E count \in WriteCounts(1) : I2cWrite(<< DS3231_REG_CONTROL >>, TRUE, count)
    /\ pc' = "ds3231_set_alarm1:138"
    /\ UNCHANGED << call, control_reg, status_reg, ret, dt, pre, prev >>

\* line 138: the 1-byte read into control_reg; its result is not looked at.
ds3231_set_alarm1_read ==
    /\ pc = "ds3231_set_alarm1:138"
    /\ \E r \in ReadByte :
         /\ I2cReadByte(r)
         /\ control_reg' = r.val
    /\ pc' = "ds3231_set_alarm1:140"
    /\ UNCHANGED << call, status_reg, ret, dt, pre, prev >>

\* line 140-143: control_reg |= A1IE | INTCN, the 2-byte write back.
ds3231_set_alarm1_update ==
    /\ pc = "ds3231_set_alarm1:140"
    /\ LET value == ds3231_set_alarm1_control(control_reg)
           control_buf == << DS3231_REG_CONTROL, value >>
       IN  /\ control_reg' = value
           /\ \E count \in WriteCounts(2) :
                /\ I2cWrite(control_buf, FALSE, count)
                /\ Return(count = 2)
    /\ UNCHANGED << call, status_reg, dt, pre, prev >>

\* ---------------------------------------------------- ds3231_set_alarm2

\* line 185-187: the 4-byte write of the alarm block; return false if short.
ds3231_set_alarm2_block ==
    /\ pc = "ds3231_set_alarm2:185"
    /\ \E count \in WriteCounts(4) :
         LET buf == ds3231_set_alarm2_buf(call.at, call.mode)
         IN  /\ I2cWrite(buf, FALSE, count)
             /\ IF count # 4
                THEN Return(FALSE)
                ELSE pc' = "ds3231_set_alarm2:192" /\ ret' = ret
    /\ UNCHANGED << call, control_reg, status_reg, dt, pre, prev >>

\* line 192: the register pointer write; its result is not looked at.
ds3231_set_alarm2_pointer ==
    /\ pc = "ds3231_set_alarm2:192"
    /\ \E count \in WriteCounts(1) : I2cWrite(<< DS3231_REG_CONTROL >>, TRUE, count)
    /\ pc' = "ds3231_set_alarm2:193"
    /\ UNCHANGED << call, control_reg, status_reg, ret, dt, pre, prev >>

\* line 193: the 1-byte read into control_reg; its result is not looked at.
ds3231_set_alarm2_read ==
    /\ pc = "ds3231_set_alarm2:193"
    /\ \E r \in ReadByte :
         /\ I2cReadByte(r)
         /\ control_reg' = r.val
    /\ pc' = "ds3231_set_alarm2:195"
    /\ UNCHANGED << call, status_reg, ret, dt, pre, prev >>

\* line 195-198: control_reg |= A2IE | INTCN, the 2-byte write back.
ds3231_set_alarm2_update ==
    /\ pc = "ds3231_set_alarm2:195"
    /\ LET value == ds3231_set_alarm2_control(control_reg)
           control_buf == << DS3231_REG_CONTROL, value >>
       IN  /\ control_reg' = value
           /\ \E count \in WriteCounts(2) :
                /\ I2cWrite(control_buf, FALSE, count)
                /\ Return(count = 2)
    /\ UNCHANGED << call, status_reg, dt, pre, prev >>

\* ----------------------------------------------- ds3231_check_alarm_flag

\* line 204: the register pointer write; its result is not looked at.
ds3231_check_alarm_flag_pointer ==
    /\ pc = "ds3231_check_alarm_flag:204"
    /\ \E count \in WriteCounts(1) : I2cWrite(<< DS3231_REG_STATUS >>, TRUE, count)
    /\ pc' = "ds3231_check_alarm_flag:205"
    /\ UNCHANGED << call, control_reg, status_reg, ret, dt, pre, prev >>

\* line 205-211: the 1-byte read into status_reg, its result not looked at,
\* and the flag bit of status_reg returned.
ds3231_check_alarm_flag_read ==
    /\ pc = "ds3231_check_alarm_flag:205"
    /\ \E r \in ReadByte :
         /\ I2cReadByte(r)
         /\ status_reg' = r.val
         /\ Return(ds3231_check_alarm_flag_result(r.val, call.alarm_num))
    /\ UNCHANGED << call, control_reg, dt, pre, prev >>

\* ----------------------------------------------- ds3231_clear_alarm_flag

\* line 217: the register pointer write; its result is not looked at.
ds3231_clear_alarm_flag_pointer ==
    /\ pc = "ds3231_clear_alarm_flag:217"
    /\ \E count \in WriteCounts(1) : I2cWrite(<< DS3231_REG_STATUS >>, TRUE, count)
    /\ pc' = "ds3231_clear_alarm_flag:218"
    /\ UNCHANGED << call, control_reg, status_reg, ret, dt, pre, prev >>

\* line 218: the 1-byte read into status_reg; its result is not looked at.
ds3231_clear_alarm_flag_read ==
    /\ pc = "ds3231_clear_alarm_flag:218"
    /\ \E r \in ReadByte :
         /\ I2cReadByte(r)
         /\ status_reg' = r.val
    /\ pc' = "ds3231_clear_alarm_flag:220"
    /\ UNCHANGED << call, control_reg, ret, dt, pre, prev >>

\* line 220-227: the flag bit cleared in status_reg, the 2-byte write back.
ds3231_clear_alarm_flag_update ==
    /\ pc = "ds3231_clear_alarm_flag:220"
    /\ LET value == ds3231_clear_alarm_flag_status(status_reg, call.alarm_num)
           buffer == << DS3231_REG_STATUS, value >>
       IN  /\ status_reg' = value
           /\ \E count \in WriteCounts(2) :
                /\ I2cWrite(buffer, FALSE, count)
                /\ Return(count = 2)
    /\ UNCHANGED << call, control_reg, dt, pre, prev >>

\* -------------------------------------------------- ds3231_disable_alarm

\* line 233: the register pointer write; its result is not looked at.
ds3231_disable_alarm_pointer ==
    /\ pc = "ds3231_disable_alarm:233"
    /\ \E count \in WriteCounts(1) : I2cWrite(<< DS3231_REG_CONTROL >>, TRUE, count)
    /\ pc' = "ds3231_disable_alarm:234"
    /\ UNCHANGED << call, control_reg, status_reg, ret, dt, pre, prev >>

\* line 234: the 1-byte read into control_reg; its result is not looked at.
ds3231_disable_alarm_read ==
    /\ pc = "ds3231_disable_alarm:234"
    /\ \E r \in ReadByte :
         /\ I2cReadByte(r)
         /\ control_reg' = r.val
    /\ pc' = "ds3231_disable_alarm:236"
    /\ UNCHANGED << call, status_reg, ret, dt, pre, prev >>

\* line 236-243: the enable bit cleared in control_reg, the 2-byte write back.
ds3231_disable_alarm_update ==
    /\ pc = "ds3231_disable_alarm:236"
    /\ LET value == ds3231_disable_alarm_control(control_reg, call.alarm_num)
           buffer == << DS3231_REG_CONTROL, value >>
       IN  /\ control_reg' = value
           /\ \E count \in WriteCounts(2) :
                /\ I2cWrite(buffer, FALSE, count)
                /\ Return(count = 2)
    /\ UNCHANGED << call, status_reg, dt, pre, prev >>

\* ------------------------------------------- ds3231_enable_32khz_output

\* line 250: the register pointer write; return false unless 1 byte went.
ds3231_enable_32khz_output_pointer ==
    /\ pc = "ds3231_enable_32khz_output:250"
    /\ \E count \in WriteCounts(1) :
         /\ I2cWrite(<< DS3231_REG_STATUS >>, TRUE, count)
         /\ IF count # 1
            THEN Return(FALSE)
            ELSE pc' = "ds3231_enable_32khz_output:251" /\ ret' = ret
    /\ UNCHANGED << call, control_reg, status_reg, dt, pre, prev >>

\* line 251: the 1-byte read into status_reg; return false unless 1 byte came.
ds3231_enable_32khz_output_read ==
    /\ pc = "ds3231_enable_32khz_output:251"
    /\ \E r \in ReadByte :
         /\ I2cReadByte(r)
         /\ status_reg' = r.val
         /\ IF r.count # 1
            THEN Return(FALSE)
            ELSE pc' = "ds3231_enable_32khz_output:253" /\ ret' = ret
    /\ UNCHANGED << call, control_reg, dt, pre, prev >>

\* line 253-260: bit 3 of status_reg set or cleared, the 2-byte write back.
ds3231_enable_32khz_output_update ==
    /\ pc = "ds3231_enable_32khz_output:253"
    /\ LET value == ds3231_enable_32khz_output_status(status_reg, call.enable)
           buffer == << DS3231_REG_STATUS, value >>
       IN  /\ status_reg' = value
           /\ \E count \in WriteCounts(2) :
                /\ I2cWrite(buffer, FALSE, count)
                /\ Return(count = 2)
    /\ UNCHANGED << call, control_reg, dt, pre, prev >>

\* --------------------------------------------- ds3231_enable_sqw_output

\* line 268: the register pointer write; return false unless 1 byte went.
ds3231_enable_sqw_output_pointer ==
    /\ pc = "ds3231_enable_sqw_output:268"
    /\ \E count \in WriteCounts(1) :
         /\ I2cWrite(<< DS3231_REG_CONTROL >>, TRUE, count)
         /\ IF count # 1
            THEN Return(FALSE)
            ELSE pc' = "ds3231_enable_sqw_output:269" /\ ret' = ret
    /\ UNCHANGED << call, control_reg, status_reg, dt, pre, prev >>

\* line 269: the 1-byte read into control_reg; return false unless 1 byte came.
ds3231_enable_sqw_output_read ==
    /\ pc = "ds3231_enable_sqw_output:269"
    /\ \E r \in ReadByte :
         /\ I2cReadByte(r)
         /\ control_reg' = r.val
         /\ IF r.count # 1
            THEN Return(FALSE)
            ELSE pc' = "ds3231_enable_sqw_output:273" /\ ret' = ret
    /\ UNCHANGED << call, status_reg, dt, pre, prev >>

\* line 273-283: INTCN cleared and the rate bits replaced in control_reg, the 2-byte write back.
ds3231_enable_sqw_output_update ==
    /\ pc = "ds3231_enable_sqw_output:273"
    /\ LET value == ds3231_enable_sqw_output_control(control_reg, call.freq)
           buffer == << DS3231_REG_CONTROL, value >>
       IN  /\ control_reg' = value
           /\ \E count \in WriteCounts(2) :
                /\ I2cWrite(buffer, FALSE, count)
                /\ Return(count = 2)
    /\ UNCHANGED << call, status_reg, dt, pre, prev >>

\* ----------------------------------------- ds3231_enable_interrupt_mode

\* line 291: the register pointer write; return false unless 1 byte went.
ds3231_enable_interrupt_mode_pointer ==
    /\ pc = "ds3231_enable_interrupt_mode:291"
    /\ \E count \in WriteCounts(1) :
         /\ I2cWrite(<< DS3231_REG_CONTROL >>, TRUE, count)
         /\ IF count # 1
            THEN Return(FALSE)
            ELSE pc' = "ds3231_enable_interrupt_mode:292" /\ ret' = ret
    /\ UNCHANGED << call, control_reg, status_reg, dt, pre, prev >>

\* line 292: the 1-byte read into control_reg; return false unless 1 byte came.
ds3231_enable_interrupt_mode_read ==
    /\ pc = "ds3231_enable_interrupt_mode:292"
    /\ \E r \in ReadByte :
         /\ I2cReadByte(r)
         /\ control_reg' = r.val
         /\ IF r.count # 1
            THEN Return(FALSE)
            ELSE pc' = "ds3231_enable_interrupt_mode:294" /\ ret' = ret
    /\ UNCHANGED << call, status_reg, dt, pre, prev >>

\* line 294-297: INTCN set in control_reg, the 2-byte write back.
ds3231_enable_interrupt_mode_update ==
    /\ pc = "ds3231_enable_interrupt_mode:294"
    /\ LET value == ds3231_enable_interrupt_mode_control(control_reg)
           buffer == << DS3231_REG_CONTROL, value >>
       IN  /\ control_reg' = value
           /\ \E count \in WriteCounts(2) :
                /\ I2cWrite(buffer, FALSE, count)
                /\ Return(count = 2)
    /\ UNCHANGED << call, status_reg, dt, pre, prev >>

\* --------------------------------------------------------------- inputs

\* The peripheral's registers after power-on: 00:00:00 on day 1 of 01/01/00,
\* no alarm set, control 0x1C, status 0x88, no aging offset, 25 degrees.
PowerOn ==
    [ a \in RegAddr |->
        CASE a \in { 3, 4, 5 } -> 1
          [] a = DS3231_REG_CONTROL -> 28
          [] a = DS3231_REG_STATUS -> 136
          [] a = 17 -> 25
          [] OTHER -> 0 ]

\* The bounds the header documents for the fields of ds3231_datetime_t.
ValidDt(d) ==
    /\ d.year \in 0..99
    /\ d.month \in 1..12
    /\ d.day \in 1..31
    /\ d.dow \in 1..7
    /\ d.hour \in 0..23
    /\ d.min \in 0..59
    /\ d.sec \in 0..59

\* Two calendar records, and every valid value of each field around them.
DtSamples ==
    { [ year |-> 25, month |-> 10, day |-> 12, dow |-> 1,
        hour |-> 14, min |-> 30, sec |-> 0 ],
      [ year |-> 99, month |-> 12, day |-> 31, dow |-> 7,
        hour |-> 23, min |-> 59, sec |-> 59 ] }

DtInputs ==
    UNION { { [ d EXCEPT !.year = v ] : v \in 0..99 }
            \cup { [ d EXCEPT !.month = v ] : v \in 1..12 }
            \cup { [ d EXCEPT !.day = v ] : v \in 1..31 }
            \cup { [ d EXCEPT !.dow = v ] : v \in 1..7 }
            \cup { [ d EXCEPT !.hour = v ] : v \in 0..23 }
            \cup { [ d EXCEPT !.min = v ] : v \in 0..59 }
            \cup { [ d EXCEPT !.sec = v ] : v \in 0..59 } : d \in DtSamples }

\* What the caller's ds3231_datetime_t holds before the driver has filled it.
DtUnset ==
    [ year |-> 255, month |-> 255, day |-> 255, dow |-> 255,
      hour |-> 255, min |-> 255, sec |-> 255 ]

\* Alarm times: two samples, and every uint8_t value in all four fields.
AtSamples ==
    { [ day |-> 0, hour |-> 0, min |-> 0, sec |-> 30 ],
      [ day |-> 31, hour |-> 23, min |-> 59, sec |-> 58 ] }

AtInputs ==
    AtSamples \cup { [ day |-> v, hour |-> v, min |-> v, sec |-> v ] : v \in Byte }

\* The registers with the time block holding buf[1..7] of ds3231_set_time
\* and the century flag (bit 7 of the month register) as given.
ClockRegs(d, century) ==
    LET r == Store(PowerOn, ds3231_set_time_buf(d), 8)
    IN  [ r EXCEPT ![5] = IF century THEN SetBits(r[5], 128) ELSE r[5] ]

\* The two alarm calls of examples/main.c.
MainAlarmCalls ==
    { [ fn |-> "ds3231_set_alarm1",
        at |-> [ day |-> 0, hour |-> 0, min |-> 0, sec |-> 30 ],
        mode |-> ALARM1_SECONDS_MATCH ],
      [ fn |-> "ds3231_set_alarm2",
        at |-> [ day |-> 0, hour |-> 0, min |-> 18, sec |-> 0 ],
        mode |-> ALARM2_MINUTES_MATCH ] }

SetTimeCalls == { [ fn |-> "ds3231_set_time", dt |-> d ] : d \in DtInputs }

ReadTimeCalls == { [ fn |-> "ds3231_read_time" ] }

SetAlarm1Calls(ats) ==
    { [ fn |-> "ds3231_set_alarm1", at |-> a, mode |-> m ] :
        a \in ats, m \in ds3231_alarm1_mode_t }

SetAlarm2Calls(ats) ==
    { [ fn |-> "ds3231_set_alarm2", at |-> a, mode |-> m ] :
        a \in ats, m \in ds3231_alarm2_mode_t }

DisableAlarmCalls ==
    { [ fn |-> "ds3231_disable_alarm", alarm_num |-> n ] : n \in ds3231_alarm_num_t }

SqwCalls ==
    { [ fn |-> "ds3231_enable_sqw_output", freq |-> f ] : f \in ds3231_sqw_freq_t }

InterruptModeCalls == { [ fn |-> "ds3231_enable_interrupt_mode" ] }

ControlCalls == DisableAlarmCalls \cup SqwCalls \cup InterruptModeCalls

StatusCalls ==
    { [ fn |-> f, alarm_num |-> n ] :
        f \in { "ds3231_check_alarm_flag", "ds3231_clear_alarm_flag" },
        n \in ds3231_alarm_num_t }
    \cup { [ fn |-> "ds3231_enable_32khz_output", enable |-> e ] : e \in BOOLEAN }

\* ------------------------------------------------------- specifications

\* The driver at the entry of call c with the peripheral's registers r.
AtEntry(c, r) ==
    /\ regs = r
    /\ ptr = 0
    /\ call = c
    /\ pc = EntryPc(c.fn)
    /\ bus = << >>
    /\ control_reg = 0
    /\ status_reg = 0
    /\ ret = FALSE
    /\ dt = DtUnset
    /\ pre = r
    /\ prev = [ call |-> NoCall, ret |-> FALSE, pre |-> r ]

\* One call of one driver function, from its entry to its return: every
\* function, on every value of the register it reads, with every sampled
\* argument.
Init ==
    \/ \E c \in SetTimeCalls : AtEntry(c, PowerOn)
    \/ \E c \in ReadTimeCalls, d \in DtInputs, century \in BOOLEAN :
         AtEntry(c, ClockRegs(d, century))
    \/ \E c \in SetAlarm1Calls(AtInputs) \cup SetAlarm2Calls(AtInputs) :
         AtEntry(c, PowerOn)
    \/ \E c \in MainAlarmCalls \cup ControlCalls, v \in Byte :
         AtEntry(c, [ PowerOn EXCEPT ![DS3231_REG_CONTROL] = v ])
    \/ \E c \in StatusCalls, v \in Byte :
         AtEntry(c, [ PowerOn EXCEPT ![DS3231_REG_STATUS] = v ])

Next ==
    \/ ds3231_set_time
    \/ ds3231_read_time_pointer
    \/ ds3231_read_time_read
    \/ ds3231_set_alarm1_block
    \/ ds3231_set_alarm1_pointer
    \/ ds3231_set_alarm1_read
    \/ ds3231_set_alarm1_update
    \/ ds3231_set_alarm2_block
    \/ ds3231_set_alarm2_pointer
    \/ ds3231_set_alarm2_read
    \/ ds3231_set_alarm2_update
    \/ ds3231_check_alarm_flag_pointer
    \/ ds3231_check_alarm_flag_read
    \/ ds3231_clear_alarm_flag_pointer
    \/ ds3231_clear_alarm_flag_read
    \/ ds3231_clear_alarm_flag_update
    \/ ds3231_disable_alarm_pointer
    \/ ds3231_disable_alarm_read
    \/ ds3231_disable_alarm_update
    \/ ds3231_enable_32khz_output_pointer
    \/ ds3231_enable_32khz_output_read
    \/ ds3231_enable_32khz_output_update
    \/ ds3231_enable_sqw_output_pointer
    \/ ds3231_enable_sqw_output_read
    \/ ds3231_enable_sqw_output_update
    \/ ds3231_enable_interrupt_mode_pointer
    \/ ds3231_enable_interrupt_mode_read
    \/ ds3231_enable_interrupt_mode_update

Spec == Init /\ [][Next]_vars

\* The caller before its first call, with struct d and the registers r.
Idle(d, r) ==
    /\ regs = r
    /\ ptr = 0
    /\ call = NoCall
    /\ pc = "idle"
    /\ bus = << >>
    /\ control_reg = 0
    /\ status_reg = 0
    /\ ret = FALSE
    /\ dt = d
    /\ pre = r
    /\ prev = [ call |-> NoCall, ret |-> FALSE, pre |-> r ]

\* The clock: a caller that holds one ds3231_datetime_t and calls
\* ds3231_set_time(&dt) and ds3231_read_time(&dt) in any order, any number of
\* times, while the clock does not tick.
InitClock == \E d \in DtInputs : Idle(d, PowerOn)

CallSetTime == Enter([ fn |-> "ds3231_set_time", dt |-> dt ])

CallReadTime == Enter([ fn |-> "ds3231_read_time" ])

NextClock ==
    \/ CallSetTime
    \/ CallReadTime
    \/ ds3231_set_time
    \/ ds3231_read_time_pointer
    \/ ds3231_read_time_read

SpecClock == InitClock /\ [][NextClock]_vars

\* The INT/SQW pin: a caller that calls ds3231_enable_sqw_output and
\* ds3231_enable_interrupt_mode in any order, any number of times, from any
\* value of the control register.
InitControl ==
    \E v \in Byte : Idle(DtUnset, [ PowerOn EXCEPT ![DS3231_REG_CONTROL] = v ])

CallEnableSqwOutput == \E c \in SqwCalls : Enter(c)

CallEnableInterruptMode == \E c \in InterruptModeCalls : Enter(c)

NextControl ==
    \/ CallEnableSqwOutput
    \/ CallEnableInterruptMode
    \/ ds3231_enable_sqw_output_pointer
    \/ ds3231_enable_sqw_output_read
    \/ ds3231_enable_sqw_output_update
    \/ ds3231_enable_interrupt_mode_pointer
    \/ ds3231_enable_interrupt_mode_read
    \/ ds3231_enable_interrupt_mode_update

SpecControl == InitControl /\ [][NextControl]_vars

\* Retrying: a caller that makes one call and then makes the same call, with
\* the same arguments, again and again, whatever it returned.
RetryCalls ==
    { [ fn |-> "ds3231_set_time", dt |-> d ] : d \in DtSamples }
    \cup ReadTimeCalls \cup MainAlarmCalls \cup ControlCalls \cup StatusCalls

\* Registers to start from: power-on, and both alarms enabled and fired.
RetryRegs ==
    { PowerOn,
      [ PowerOn EXCEPT ![DS3231_REG_CONTROL] = 31, ![DS3231_REG_STATUS] = 139 ] }

InitRetry == \E c \in RetryCalls, r \in RetryRegs : AtEntry(c, r)

CallAgain == Enter(call)

NextRetry == CallAgain \/ Next

SpecRetry == InitRetry /\ [][NextRetry]_vars

\* The status register: a caller that makes two calls, each any of polling
\* an alarm flag, clearing one and switching the 32 kHz output, while the
\* peripheral raises the alarm flags whenever its alarms match.
StatusFlag(alarm_num) ==
    IF alarm_num = ALARM_1 THEN DS3231_STATUS_A1F ELSE DS3231_STATUS_A2F

\* The status register when the caller starts: no alarm flag set.
StatusAtStart == { 0, 8, 128, 136 }

InitStatus ==
    \E v \in StatusAtStart : Idle(DtUnset, [ PowerOn EXCEPT ![DS3231_REG_STATUS] = v ])

\* The first call, or the second once the first has returned.
CallStatus ==
    /\ prev.call = NoCall
    /\ \E c \in StatusCalls : Enter(c)

\* An alarm of the peripheral matches: it sets the alarm's flag in the
\* status register, at any moment, between any two transfers.
AlarmTriggers ==
    \E n \in ds3231_alarm_num_t :
        /\ BitAnd(regs[DS3231_REG_STATUS], StatusFlag(n)) = 0
        /\ regs' = [ regs EXCEPT ![DS3231_REG_STATUS] = SetBits(@, StatusFlag(n)) ]
        /\ UNCHANGED << ptr, pc, call, control_reg, status_reg, bus, ret, dt,
                        pre, prev >>

NextStatus ==
    \/ CallStatus
    \/ AlarmTriggers
    \/ ds3231_check_alarm_flag_pointer
    \/ ds3231_check_alarm_flag_read
    \/ ds3231_clear_alarm_flag_pointer
    \/ ds3231_clear_alarm_flag_read
    \/ ds3231_clear_alarm_flag_update
    \/ ds3231_enable_32khz_output_pointer
    \/ ds3231_enable_32khz_output_read
    \/ ds3231_enable_32khz_output_update

SpecStatus == InitStatus /\ [][NextStatus]_vars

\* ------------------------------------------------- reading a finished call

Done == pc = "done"

Short(x) == x.count # x.len

\* Every transfer of the call moved all its bytes.
AllTransferred == \A i \in 1..Len(bus) : ~Short(bus[i])

\* The register read of the call (its pointer write or its data read) was short.
RegisterReadFailed ==
    \E i \in 1..Len(bus) : (bus[i].nostop \/ bus[i].op = "read") /\ Short(bus[i])

\* The functions that update one register by read-modify-write, with the
\* register, the bits cleared and the bits set.
RmwFns ==
    { "ds3231_clear_alarm_flag", "ds3231_disable_alarm",
      "ds3231_enable_32khz_output", "ds3231_enable_sqw_output",
      "ds3231_enable_interrupt_mode", "ds3231_set_alarm1", "ds3231_set_alarm2" }

RmwTarget(c) ==
    IF c.fn \in { "ds3231_clear_alarm_flag", "ds3231_enable_32khz_output" }
    THEN DS3231_REG_STATUS
    ELSE DS3231_REG_CONTROL

RmwClearMask(c) ==
    CASE c.fn \in { "ds3231_clear_alarm_flag", "ds3231_disable_alarm" } ->
           IF c.alarm_num = ALARM_1 THEN 1 ELSE 2
      [] c.fn = "ds3231_enable_32khz_output" -> 8
      [] c.fn = "ds3231_enable_sqw_output" -> 28
      [] OTHER -> 0

RmwSetBits(c) ==
    CASE c.fn = "ds3231_enable_32khz_output" -> IF c.enable THEN 8 ELSE 0
      [] c.fn = "ds3231_enable_sqw_output" -> c.freq * 8
      [] c.fn = "ds3231_enable_interrupt_mode" -> 4
      [] c.fn = "ds3231_set_alarm1" -> 5
      [] c.fn = "ds3231_set_alarm2" -> 6
      [] OTHER -> 0

\* (v & ~clearMask) | setBits for call c
RmwValue(c, v) == BitOr(ClearBits(v, RmwClearMask(c)), RmwSetBits(c))

\* ------------------------------------------------------------------- C1
\* C1: a transfer that returns a short count is the last transfer of its
\* call, and the call returns false.
C1_ShortTransferEndsCall ==
    \A i \in 1..Len(bus) :
        Short(bus[i]) => i = Len(bus) /\ (Done => ret = FALSE)

\* ------------------------------------------------------------------- C2
\* C2: when the register read of a read-modify-write fails, the function
\* returns false and its target register keeps the value it had; and the
\* control and status registers hold, after any call, either the value they
\* had or (old & ~clearMask) | setBits of it.
C2_FailedReadKeepsRegister ==
    /\ Done /\ call.fn \in RmwFns /\ RegisterReadFailed
         => /\ ret = FALSE
            /\ regs[RmwTarget(call)] = pre[RmwTarget(call)]
    /\ Done =>
         \A a \in { DS3231_REG_CONTROL, DS3231_REG_STATUS } :
            \/ regs[a] = pre[a]
            \/ /\ call.fn \in RmwFns
               /\ a = RmwTarget(call)
               /\ regs[a] = RmwValue(call, pre[a])

\* ------------------------------------------------------------------- C3
\* C3: when the status read of ds3231_check_alarm_flag fails, the value
\* returned is neither the one returned for a flag that is clear nor "flag
\* set".
C3_FailedReadIsSurfaced ==
    Done /\ call.fn = "ds3231_check_alarm_flag" /\ RegisterReadFailed
      => /\ ret # ds3231_check_alarm_flag_result(0, call.alarm_num)
         /\ ret # TRUE

\* ------------------------------------------------------------------- C4
\* C4: the month ds3231_read_time returns is the BCD value of the month
\* register with bit 7, the century flag, cleared.
C4_CenturyFlagMasked ==
    Done /\ call.fn = "ds3231_read_time" /\ ret
      => dt.month = bcd_to_dec(ClearBits(pre[5], 128))

\* ------------------------------------------------------------------- C5
\* The seven time registers, decoded as ds3231_read_time decodes them.
ClockNow ==
    ds3231_read_time_decode([ i \in 1..7 |-> regs[DS3231_REG_TIME + i - 1] ])

\* C5: for a valid record r, the time registers a successful
\* ds3231_set_time(r) leaves decode to r, and a successful ds3231_read_time
\* that follows it returns r in every field.
C5_TimeRoundTrip ==
    /\ Done /\ ret /\ call.fn = "ds3231_set_time" /\ ValidDt(call.dt)
         => ClockNow = call.dt
    /\ /\ Done /\ ret /\ call.fn = "ds3231_read_time"
       /\ prev.ret /\ prev.call.fn = "ds3231_set_time" /\ ValidDt(prev.call.dt)
       => dt = prev.call.dt

\* 23:59:59 on day 7, 31/12/99 was set and read back.
C5_Witness ==
    /\ Done /\ ret /\ call.fn = "ds3231_read_time"
    /\ prev.ret /\ prev.call.fn = "ds3231_set_time"
    /\ prev.call.dt = [ year |-> 99, month |-> 12, day |-> 31, dow |-> 7,
                        hour |-> 23, min |-> 59, sec |-> 59 ]
    /\ dt.year = 99 /\ dt.sec = 59

\* ------------------------------------------------------------------- C6
\* The mask bits (bit 7 of second, minute, hour, day) of each alarm 1 mode
\* and (minute, hour, day) of each alarm 2 mode, in enum order.
Alarm1Masks ==
    << << 1, 1, 1, 1 >>, << 0, 1, 1, 1 >>, << 0, 0, 1, 1 >>,
       << 0, 0, 0, 1 >>, << 0, 0, 0, 0 >>, << 0, 0, 0, 0 >> >>

Alarm2Masks ==
    << << 1, 1, 1 >>, << 0, 1, 1 >>, << 0, 0, 1 >>, << 0, 0, 0 >>, << 0, 0, 0 >> >>

\* The mask bits of the n bytes after the address in buf are those of row,
\* and bit 6 of the last byte is 0 in the date mode and 1 in the day mode.
MaskBitsAre(buf, n, row, dateMode, dayMode) ==
    /\ \A i \in 1..n : Bit(buf[i + 1], 7) = row[i]
    /\ dateMode => Bit(buf[n + 1], 6) = 0
    /\ dayMode => Bit(buf[n + 1], 6) = 1

\* C6: whatever the alarm time, the block ds3231_set_alarm1/2 sends, and the
\* alarm registers once it is stored, carry the mask bits of the mode's row
\* of the table and the day/date bit of the two day-matching modes.
C6_AlarmMaskTable ==
    /\ call.fn = "ds3231_set_alarm1" /\ bus # << >>
         => LET sent == bus[1].data
                stored == << sent[1] >> \o [ i \in 1..4 |-> regs[DS3231_REG_ALARM1 + i - 1] ]
            IN  /\ Len(sent) = 5
                /\ sent[1] = DS3231_REG_ALARM1
                /\ MaskBitsAre(sent, 4, Alarm1Masks[call.mode + 1],
                               call.mode = ALARM1_DATE_H_M_S_MATCH,
                               call.mode = ALARM1_DAY_OF_WEEK_H_M_S_MATCH)
                /\ ~Short(bus[1])
                     => MaskBitsAre(stored, 4, Alarm1Masks[call.mode + 1],
                                    call.mode = ALARM1_DATE_H_M_S_MATCH,
                                    call.mode = ALARM1_DAY_OF_WEEK_H_M_S_MATCH)
    /\ call.fn = "ds3231_set_alarm2" /\ bus # << >>
         => LET sent == bus[1].data
                stored == << sent[1] >> \o [ i \in 1..3 |-> regs[DS3231_REG_ALARM2 + i - 1] ]
            IN  /\ Len(sent) = 4
                /\ sent[1] = DS3231_REG_ALARM2
                /\ MaskBitsAre(sent, 3, Alarm2Masks[call.mode + 1],
                               call.mode = ALARM2_DATE_H_M_MATCH,
                               call.mode = ALARM2_DAY_OF_WEEK_H_M_MATCH)
                /\ ~Short(bus[1])
                     => MaskBitsAre(stored, 3, Alarm2Masks[call.mode + 1],
                                    call.mode = ALARM2_DATE_H_M_MATCH,
                                    call.mode = ALARM2_DAY_OF_WEEK_H_M_MATCH)

\* An alarm 1 set for "seconds match" at second 80, whose BCD byte 0x80 has
\* bit 7 set, was stored with the mask bit of the second byte clear.
C6_Witness ==
    /\ Done /\ ret
    /\ call.fn = "ds3231_set_alarm1"
    /\ call.mode = ALARM1_SECONDS_MATCH
    /\ call.at.sec = 80
    /\ regs[DS3231_REG_ALARM1] = 0

C8_OutputModesExclusive ==
    /\ /\ Done /\ ret /\ call.fn = "ds3231_enable_sqw_output"
       /\ prev.ret /\ prev.call.fn = "ds3231_enable_interrupt_mode"
       => /\ Bit(regs[DS3231_REG_CONTROL], 2) = 0
          /\ (regs[DS3231_REG_CONTROL] \div 8) % 4 = call.freq
          /\ BitAnd(regs[DS3231_REG_CONTROL], 3) = BitAnd(prev.pre[DS3231_REG_CONTROL], 3)
    /\ Done /\ ret /\ call.fn = "ds3231_enable_interrupt_mode"
         => Bit(regs[DS3231_REG_CONTROL], 2) = 1

\* From a control register of 0x1B (both alarms enabled, 8192 Hz selected),
\* interrupt mode and then a 1024 Hz square wave were selected: 0x0B.
C8_Witness ==
    /\ Done /\ ret /\ call.fn = "ds3231_enable_sqw_output"
    /\ call.freq = SQW_FREQ_1024HZ
    /\ prev.ret /\ prev.call.fn = "ds3231_enable_interrupt_mode"
    /\ prev.pre[DS3231_REG_CONTROL] = 27
    /\ pre[DS3231_REG_CONTROL] = 31
    /\ regs[DS3231_REG_CONTROL] = 11

\* ------------------------------------------------------------------- C9
\* C9: a read-modify-write function whose transfers all went through leaves
\* (v & ~clearMask) | setBits in its target register, after exactly one
\* pointer write and 1-byte read and exactly one 2-byte write of that
\* register (ds3231_set_alarm1/2: after the block write).
C9_ReadModifyWrite ==
    Done /\ call.fn \in RmwFns /\ AllTransferred
      => LET a == RmwTarget(call)
             step == IF call.fn \in { "ds3231_set_alarm1", "ds3231_set_alarm2" }
                     THEN SubSeq(bus, 2, Len(bus))
                     ELSE bus
         IN  /\ regs[a] = RmwValue(call, pre[a])
             /\ Len(step) = 3
             /\ step[1].op = "write" /\ step[1].data = << a >>
             /\ step[2].op = "read" /\ step[2].len = 1 /\ step[2].data = << pre[a] >>
             /\ step[3].op = "write"
             /\ step[3].data = << a, RmwValue(call, pre[a]) >>
             /\ Cardinality({ i \in 1..Len(bus) : bus[i].op = "read" }) = 1
             /\ Cardinality({ i \in 1..Len(bus) :
                                bus[i].op = "write" /\ bus[i].data[1] = a }) = 2

\* ds3231_enable_sqw_output(SQW_FREQ_1024HZ) on a control register of 0xFF
\* went through and left 0xEB.
C9_Witness ==
    /\ Done /\ AllTransferred
    /\ call.fn = "ds3231_enable_sqw_output"
    /\ call.freq = SQW_FREQ_1024HZ
    /\ pre[DS3231_REG_CONTROL] = 255
    /\ regs[DS3231_REG_CONTROL] = 235

\* ------------------------------------------------------------------ C10
\* The registers one call of c leaves, from registers r, when every transfer
\* goes through.
SingleSuccess(c, r) ==
    CASE c.fn = "ds3231_set_time" -> Store(r, ds3231_set_time_buf(c.dt), 8)
      [] c.fn = "ds3231_set_alarm1" ->
           [ Store(r, ds3231_set_alarm1_buf(c.at, c.mode), 5)
               EXCEPT ![DS3231_REG_CONTROL] = RmwValue(c, r[DS3231_REG_CONTROL]) ]
      [] c.fn = "ds3231_set_alarm2" ->
           [ Store(r, ds3231_set_alarm2_buf(c.at, c.mode), 4)
               EXCEPT ![DS3231_REG_CONTROL] = RmwValue(c, r[DS3231_REG_CONTROL]) ]
      [] c.fn \in RmwFns \ { "ds3231_set_alarm1", "ds3231_set_alarm2" } ->
           [ r EXCEPT ![RmwTarget(c)] = RmwValue(c, r[RmwTarget(c)]) ]
      [] OTHER -> r

\* Whether a call reports failure; ds3231_check_alarm_flag returns the flag
\* and has no way to.
Succeeded(c, r) == c.fn = "ds3231_check_alarm_flag" \/ r

\* C10: a call that succeeds straight after the same call (a) succeeded
\* leaves the registers as that first call left them, and (b) failed leaves
\* them as one success from the registers before the failed call would.
C10_RetryIsIdempotent ==
    /\ Done /\ Succeeded(call, ret)
    /\ prev.call.fn = call.fn /\ prev.call = call
    => IF Succeeded(prev.call, prev.ret)
       THEN regs = pre
       ELSE regs = SingleSuccess(call, prev.pre)

\* ------------------------------------------------------------------ C11
\* (value / 10) * 16 + value % 10
PackedBcd(v) == (v \div 10) * 16 + (v % 10)

\* The registers of r outside first..last are those of q.
SameOutside(r, q, first, last) ==
    \A a \in RegAddr : (a < first \/ a > last) => r[a] = q[a]

\* C11: ds3231_set_time makes one transfer, a write with a stop of the
\* address 0x00 and seven bytes: second, minute, hour, day of week, day,
\* month, year, each (value / 10) * 16 + value % 10; no register outside
\* 0x00-0x06 changes, on success the seven registers hold the seven bytes,
\* and 25/10/12, day 1, 14:30:00 is sent as 00 30 14 01 12 10 25 (hex).
C11_SetTimeBlock ==
    Done /\ call.fn = "ds3231_set_time"
      => LET d == call.dt
             bytes == << PackedBcd(d.sec), PackedBcd(d.min), PackedBcd(d.hour),
                         PackedBcd(d.dow), PackedBcd(d.day), PackedBcd(d.month),
                         PackedBcd(d.year) >>
         IN  /\ Len(bus) = 1
             /\ bus[1].op = "write" /\ ~bus[1].nostop
             /\ bus[1].data = << 0 >> \o bytes
             /\ SameOutside(regs, pre, 0, 6)
             /\ ret => \A i \in 1..7 : regs[i - 1] = bytes[i]
             /\ d = [ year |-> 25, month |-> 10, day |-> 12, dow |-> 1,
                      hour |-> 14, min |-> 30, sec |-> 0 ]
                  => bytes = << 0, 48, 20, 1, 18, 16, 37 >>

\* 25/10/12, day 1, 14:30:00 was set: the time registers hold
\* 00 30 14 01 12 10 25 and the alarm, control and status registers are as
\* they were.
C11_Witness ==
    /\ Done /\ ret /\ call.fn = "ds3231_set_time"
    /\ call.dt.year = 25 /\ call.dt.min = 30 /\ call.dt.hour = 14
    /\ [ i \in 1..7 |-> regs[i - 1] ] = << 0, 48, 20, 1, 18, 16, 37 >>
    /\ regs[DS3231_REG_CONTROL] = 28 /\ regs[DS3231_REG_STATUS] = 136

\* ------------------------------------------------------------------ C12
\* The low n bits of x.
LowBits(x, n) == x % (2 ^ n)

\* C12: the first transfer of ds3231_set_alarm1 is a write with a stop of
\* the address 0x07 and four bytes (second, minute, hour, day), that of
\* ds3231_set_alarm2 of the address 0x0B and three bytes (minute, hour,
\* day); bits 0-6 (0-5 of the day byte) of the byte of a field that is in
\* range are the field's BCD encoding; the write changes no register outside
\* 0x07-0x0A (0x0B-0x0D); and ds3231_set_alarm1({0, 0, 0, 30},
\* ALARM1_SECONDS_MATCH) sends 30 80 80 80 (hex).
C12_AlarmBlock ==
    /\ call.fn = "ds3231_set_alarm1" /\ Len(bus) >= 1
         => LET b == bus[1].data
                at == call.at
            IN  /\ bus[1].op = "write" /\ ~bus[1].nostop
                /\ Len(b) = 5 /\ b[1] = 7
                /\ at.sec \in 0..59 => LowBits(b[2], 7) = PackedBcd(at.sec)
                /\ at.min \in 0..59 => LowBits(b[3], 7) = PackedBcd(at.min)
                /\ at.hour \in 0..23 => LowBits(b[4], 7) = PackedBcd(at.hour)
                /\ at.day \in 0..31 => LowBits(b[5], 6) = PackedBcd(at.day)
                /\ Len(bus) = 1 =>
                     /\ SameOutside(regs, pre, 7, 10)
                     /\ ~Short(bus[1]) => \A i \in 2..5 : regs[5 + i] = b[i]
                /\ ( /\ at = [ day |-> 0, hour |-> 0, min |-> 0, sec |-> 30 ]
                     /\ call.mode = ALARM1_SECONDS_MATCH )
                     => b = << 7, 48, 128, 128, 128 >>
    /\ call.fn = "ds3231_set_alarm2" /\ Len(bus) >= 1
         => LET b == bus[1].data
                at == call.at
            IN  /\ bus[1].op = "write" /\ ~bus[1].nostop
                /\ Len(b) = 4 /\ b[1] = 11
                /\ at.min \in 0..59 => LowBits(b[2], 7) = PackedBcd(at.min)
                /\ at.hour \in 0..23 => LowBits(b[3], 7) = PackedBcd(at.hour)
                /\ at.day \in 0..31 => LowBits(b[4], 6) = PackedBcd(at.day)
                /\ Len(bus) = 1 =>
                     /\ SameOutside(regs, pre, 11, 13)
                     /\ ~Short(bus[1]) => \A i \in 2..4 : regs[9 + i] = b[i]

\* The alarm block of ds3231_set_alarm1({0, 0, 0, 30}, ALARM1_SECONDS_MATCH)
\* has just been written: registers 0x07-0x0A hold 30 80 80 80.
C12_Witness ==
    /\ call.fn = "ds3231_set_alarm1" /\ call.mode = ALARM1_SECONDS_MATCH
    /\ call.at = [ day |-> 0, hour |-> 0, min |-> 0, sec |-> 30 ]
    /\ pc = "ds3231_set_alarm1:137"
    /\ << regs[7], regs[8], regs[9], regs[10] >> = << 48, 128, 128, 128 >>

\* ------------------------------------------------------------------ C13
\* C13: ds3231_set_time returns true exactly when its one 8-byte write moved
\* 8 bytes; ds3231_read_time returns true exactly when its pointer write
\* moved 1 byte and its read moved 7; and a ds3231_read_time that returns
\* false has left the caller's struct as it was.
C13_TimeFailsWithTransfer ==
    /\ Done /\ call.fn = "ds3231_set_time"
         => /\ Len(bus) = 1 /\ bus[1].len = 8
            /\ ret <=> bus[1].count = 8
    /\ Done /\ call.fn = "ds3231_read_time"
         => /\ ret <=> /\ Len(bus) = 2
                       /\ bus[1].len = 1 /\ bus[1].count = 1
                       /\ bus[2].len = 7 /\ bus[2].count = 7
            /\ ~ret => dt = DtUnset

\* ds3231_read_time set the pointer, its 7-byte read failed, and the
\* caller's struct is still unfilled while the registers hold 23:59:59.
C13_Witness ==
    /\ Done /\ ~ret /\ call.fn = "ds3231_read_time"
    /\ Len(bus) = 2 /\ bus[2].count = 0
    /\ regs[0] = 89 /\ regs[2] = 35
    /\ dt = DtUnset

\* ------------------------------------------------------------------ C14
\* C14: a ds3231_disable_alarm that returns true leaves the control register
\* as it was but for the enable bit of its channel, which is clear, leaves
\* every other register as it was, and has written to no register but the
\* control register.
C14_DisableIsSelective ==
    Done /\ ret /\ call.fn = "ds3231_disable_alarm"
      => /\ regs[DS3231_REG_CONTROL] =
              ClearBits(pre[DS3231_REG_CONTROL],
                        IF call.alarm_num = ALARM_1 THEN 1 ELSE 2)
         /\ SameOutside(regs, pre, DS3231_REG_CONTROL, DS3231_REG_CONTROL)
         /\ \A i \in 1..Len(bus) :
               bus[i].op = "write" /\ bus[i].len > 1
                 => bus[i].data[1] = DS3231_REG_CONTROL

\* ------------------------------------------------------------------ C15
\* The register a function reads: the first time register, the status
\* register or the control register.
ReadTarget(c) ==
    CASE c.fn = "ds3231_read_time" -> DS3231_REG_TIME
      [] c.fn = "ds3231_check_alarm_flag" -> DS3231_REG_STATUS
      [] OTHER -> RmwTarget(c)

\* C15: every read on the bus comes straight after a 1-byte write, without a
\* stop, of the address of the register the function reads, and that write
\* went through; the read ends with a stop; and every write of an address
\* with data ends with a stop.
C15_ReadFollowsPointer ==
    \A i \in 1..Len(bus) :
        /\ bus[i].op = "read"
             => /\ ~bus[i].nostop
                /\ i > 1
                /\ bus[i - 1].op = "write" /\ bus[i - 1].nostop
                /\ bus[i - 1].data = << ReadTarget(call) >>
                /\ ~Short(bus[i - 1])
        /\ bus[i].op = "write" /\ bus[i].len > 1 => ~bus[i].nostop

\* ------------------------------------------------------------------ C16
\* Whether the flag of alarm_num is set in the status register of r.
FlagSet(r, alarm_num) == BitAnd(r[DS3231_REG_STATUS], StatusFlag(alarm_num)) # 0

\* A ds3231_check_alarm_flag whose pointer write and read both went through
\* returns whether the flag of its channel is set.
CheckReportsFlag ==
    /\ pc = "ds3231_check_alarm_flag:205" /\ pc' = "done"
    /\ \A i \in 1..Len(bus') : ~Short(bus'[i])
    => ret' = FlagSet(regs, call.alarm_num)

\* A ds3231_clear_alarm_flag that returns true leaves the flag of its
\* channel clear, whatever its transfers returned.
ClearLeavesFlagClear ==
    /\ call.fn = "ds3231_clear_alarm_flag" /\ pc # "done" /\ pc' = "done" /\ ret'
    => ~FlagSet(regs', call.alarm_num)

\* After a ds3231_clear_alarm_flag(c) that returned true, the flag of c, as
\* long as it is clear, is set by the peripheral alone: no transfer of the
\* next call sets it.
ClearedFlagRisesByAlarm ==
    /\ prev.call.fn = "ds3231_clear_alarm_flag" /\ prev.ret
    /\ ~FlagSet(regs, prev.call.alarm_num)
    /\ FlagSet(regs', prev.call.alarm_num)
    => bus' = bus

\* C16: ds3231_check_alarm_flag(c) with a successful read returns true
\* exactly when the flag of c is set; ds3231_clear_alarm_flag(c) that
\* returns true leaves it clear; and from then on it stays clear, so that
\* ds3231_check_alarm_flag(c) returns false, until the peripheral sets it.
C16_PollThenClear ==
    [][CheckReportsFlag /\ ClearLeavesFlagClear /\ ClearedFlagRisesByAlarm]_vars

\* ------------------------------------------------------------------ C17
\* C17: an alarm flag that is set stays set in every step but those of a
\* ds3231_clear_alarm_flag for its own channel, wherever the peripheral set
\* it, also between the read and the write of a driver call.
C17_NoAlarmLost ==
    [][\A n \in ds3231_alarm_num_t :
          FlagSet(regs, n) /\ ~FlagSet(regs', n)
            => call.fn = "ds3231_clear_alarm_flag" /\ call.alarm_num = n]_vars

====
